---------------------------- MODULE Spec2Model ----------------------------
(***************************************************************************)
(* Model of recommendations.py: the dataset normaliser, the signature      *)
(* generator, the embedding cache (EMBEDDINGS_FILE) and the top-k          *)
(* similarity loop of main().                                              *)
(*                                                                         *)
(* A Python str is a sequence of code points (naturals).  A pandas cell is *)
(* either a str or the missing value NaN.  A DataFrame is a record         *)
(* [hasUrl, rows]; a row is a record [url, title, excerpt, keywords].      *)
(***************************************************************************)
EXTENDS Integers, Sequences, FiniteSets, TLC

(***************************************************************************)
(* Bounds of the model.                                                    *)
(***************************************************************************)
MaxRows == 2        \* AddDocument appends only to a CSV of fewer rows than this
MaxN == 3           \* corpus size in the ranking specification
MaxK == 2           \* largest configured TOP_K in the ranking specification
MaxNormRows == 2    \* rows of the raw table in the normaliser specification
MaxRecords == 1     \* (url, text) records per input in the signature specification

(***************************************************************************)
(* Program constants.                                                      *)
(***************************************************************************)
TOP_K == 8          \* recommendations.py line 12
NUL == 0            \* b"\x00", the separator of dataset_signature
SELF_SCORE == -1    \* sim_scores[idx] = -1.0

\* Code points used by the inputs.
SP == <<32>>
NanStr == <<110, 97, 110>>           \* str(float("nan")) = "nan"
JoinSep == <<46, 32>>                \* ". "
\* The pandas missing value (float nan): not a str, and truthy in Python.
NaN == <<-1>>

IsSpace(c) == c = 32
\* A lone surrogate: str.encode("utf-8", errors="ignore") drops it.
IsSurrogate(c) == c >= 55296 /\ c <= 57343

Min(a, b) == IF a < b THEN a ELSE b
Max(a, b) == IF a > b THEN a ELSE b

RECURSIVE StrLess(_, _)
\* Python's str "<": lexicographic by code point.
StrLess(a, b) ==
    IF b = <<>> THEN FALSE
    ELSE IF a = <<>> THEN TRUE
    ELSE IF Head(a) # Head(b) THEN Head(a) < Head(b)
    ELSE StrLess(Tail(a), Tail(b))

(***************************************************************************)
(* ensure_unique_and_ordered                                               *)
(***************************************************************************)
\* df.dropna(subset=["url"])
DropNaUrl(rows) == SelectSeq(rows, LAMBDA r : r.url # NaN)

RECURSIVE DropDuplicatesFrom(_, _)
DropDuplicatesFrom(rows, seen) ==
    IF rows = <<>> THEN <<>>
    ELSE IF Head(rows).url \in seen THEN DropDuplicatesFrom(Tail(rows), seen)
    ELSE <<Head(rows)>> \o DropDuplicatesFrom(Tail(rows), seen \cup {Head(rows).url})

\* A normaliser that forgets to drop the duplicates.
DropDuplicatesNone(rows) == rows

\* df.drop_duplicates(subset=["url"]): keep="first", in the current row order.
DropDuplicates(rows) == DropDuplicatesFrom(rows, {})

RECURSIVE InsertByUrl(_, _)
InsertByUrl(r, sorted) ==
    IF sorted = <<>> THEN <<r>>
    ELSE IF StrLess(r.url, Head(sorted).url) THEN <<r>> \o sorted
    ELSE <<Head(sorted)>> \o InsertByUrl(r, Tail(sorted))

\* A buggy normaliser that forgets to sort.
SortUnsorted(rows) == rows

RECURSIVE SortByUrl(_)
\* df.sort_values("url"): ascending; the keys are unique after drop_duplicates,
\* so the result does not depend on the stability of the sort.
SortByUrl(rows) ==
    IF rows = <<>> THEN <<>> ELSE InsertByUrl(Head(rows), SortByUrl(Tail(rows)))

\* A normaliser that does not look for the url column.
ensure_without_column_check(df) ==
    [ok |-> TRUE, rows |-> SortByUrl(DropDuplicates(DropNaUrl(df.rows)))]

\* [ok |-> FALSE] is the ValueError raised when there is no url column.
ensure_unique_and_ordered(df) ==
    IF ~df.hasUrl THEN [ok |-> FALSE, rows |-> <<>>]
    ELSE [ok |-> TRUE, rows |-> SortByUrl(DropDuplicates(DropNaUrl(df.rows)))]

(***************************************************************************)
(* combine_text                                                            *)
(***************************************************************************)
\* str(x or ""): "" stays "", a str stays itself, NaN is truthy and prints "nan".
StrOr(cell) == IF cell = NaN THEN NanStr ELSE cell

RECURSIVE LStrip(_)
LStrip(s) == IF s # <<>> /\ IsSpace(Head(s)) THEN LStrip(Tail(s)) ELSE s

RECURSIVE RStrip(_)
RStrip(s) ==
    IF s # <<>> /\ IsSpace(s[Len(s)]) THEN RStrip(SubSeq(s, 1, Len(s) - 1)) ELSE s

\* str.strip()
Strip(s) == RStrip(LStrip(s))

RECURSIVE Join(_, _)
\* sep.join(parts)
Join(sep, parts) ==
    IF parts = <<>> THEN <<>>
    ELSE IF Len(parts) = 1 THEN parts[1]
    ELSE parts[1] \o sep \o Join(sep, Tail(parts))

combine_text(row) ==
    LET parts == <<StrOr(row.title), StrOr(row.excerpt), StrOr(row.keywords)>>
        kept == SelectSeq(parts, LAMBDA p : Strip(p) # <<>>)
    IN  Join(JoinSep, [i \in 1..Len(kept) |-> Strip(kept[i])])

\* df["url"] and df["combined_text"] of the normalised table.
Urls(rows) == [i \in 1..Len(rows) |-> rows[i].url]
Texts(rows) == [i \in 1..Len(rows) |-> combine_text(rows[i])]

(***************************************************************************)
(* dataset_signature                                                       *)
(***************************************************************************)
\* s.encode("utf-8", errors="ignore"): code points that cannot be encoded
\* (lone surrogates) are dropped; the model keeps one unit per code point.
EncodeIgnore(s) == SelectSeq(s, LAMBDA c : ~IsSurrogate(c))

\* model_name.encode("utf-8") is strict; model names here are encodable.
RECURSIVE RecordBytes(_, _)
RecordBytes(urls, texts) ==
    IF urls = <<>> \/ texts = <<>> THEN <<>>
    ELSE <<NUL>> \o EncodeIgnore(Head(urls)) \o <<NUL>> \o EncodeIgnore(Head(texts))
         \o RecordBytes(Tail(urls), Tail(texts))

\* The bytes fed to hasher.update, in order.
SignatureStream(urls, texts, model_name) == model_name \o RecordBytes(urls, texts)

\* hashlib.md5(...).hexdigest(): the digest is a function of the byte stream;
\* MD5 is taken collision-free, so the digest is the stream under a tag.
Md5Hex(stream) == [md5 |-> stream]

dataset_signature(urls, texts, model_name) ==
    Md5Hex(SignatureStream(urls, texts, model_name))

(***************************************************************************)
(* The embedding model and cosine_similarity                               *)
(***************************************************************************)
RECURSIVE SumSeq(_)
SumSeq(s) == IF s = <<>> THEN 0 ELSE Head(s) + SumSeq(Tail(s))

\* The vectors the stand-in model produces: unit vectors and the zero vector.
ModelVectors == << <<1, 0>>, <<0, 1>>, <<-1, 0>>, <<0, -1>>, <<0, 0>> >>

\* SentenceTransformer(model_name).encode([text])[0]: an opaque function,
\* deterministic per model identifier; this fixed function stands for it.
EncodeOne(model_name, text) ==
    ModelVectors[((SumSeq(model_name) + SumSeq(text) + Len(text)) % 4) + 1]

\* model.encode(texts.tolist()): one vector per text, in order.
ModelEncode(model_name, texts) ==
    [i \in 1..Len(texts) |-> EncodeOne(model_name, texts[i])]

Dot(a, b) == a[1] * b[1] + a[2] * b[2]
\* The Euclidean norm of a vector whose norm is an integer.
Norm(a) == CHOOSE r \in 0..(Dot(a, a)) : r * r = Dot(a, a)

\* sklearn normalises each row (a zero row stays zero) and multiplies.
CosSim(a, b) ==
    IF Norm(a) = 0 \/ Norm(b) = 0 THEN 0 ELSE Dot(a, b) \div (Norm(a) * Norm(b))

\* cosine_similarity(embeddings): shape (rows, rows).
cosine_similarity(emb) ==
    [i \in 1..Len(emb) |-> [j \in 1..Len(emb) |-> CosSim(emb[i], emb[j])]]

(***************************************************************************)
(* The top-k loop of main()                                                *)
(***************************************************************************)
Permutations1(n) ==
    {p \in [1..n -> 1..n] : \A i, j \in 1..n : p[i] = p[j] => i = j}

\* np.argsort(a) with the default kind ("quicksort", not stable): some
\* permutation that sorts a ascending; the order of equal elements is whatever
\* the build's sort leaves.
ArgSorts(a) ==
    {p \in Permutations1(Len(a)) :
        \A i \in 1..(Len(a) - 1) : a[p[i]] <= a[p[i + 1]]}

\* a[-k:] of Python
SliceLast(a, k) ==
    IF k <= 0 THEN SubSeq(a, 1 - k, Len(a))
    ELSE SubSeq(a, Max(1, Len(a) - k + 1), Len(a))

\* a[::-1]
Reverse(a) == [i \in 1..Len(a) |-> a[Len(a) + 1 - i]]

\* A top-k that forgets the lower bound of 1.
EffectiveTopKNoFloor(k, n) == Min(k, n - 1)

\* A top-k that forgets the upper bound of n - 1.
EffectiveTopKNoCap(k, n) == Max(1, k)

\* top_k = max(1, min(TOP_K, n - 1))
EffectiveTopK(k, n) == Max(1, Min(k, n - 1))

\* sim_scores = similarity_matrix[idx].astype(float).copy(); sim_scores[idx] = -1.0
MaskedScores(sim, idx) == [sim[idx] EXCEPT ![idx] = SELF_SCORE]

\* One iteration of the loop for source idx (1-based), given the permutation
\* argsort returned: the rows appended to recommendations.
RowsForSource(rows, sim, idx, top_k, perm) ==
    LET sim_scores == MaskedScores(sim, idx)
        top_indices == Reverse(SliceLast(perm, top_k))
    IN  [t \in 1..Len(top_indices) |->
            [source_url |-> rows[idx].url,
             target_url |-> rows[top_indices[t]].url,
             similarity_score |-> sim_scores[top_indices[t]],
             anchor_text |-> rows[top_indices[t]].title]]

RECURSIVE RowsFrom(_, _, _, _, _)
\* The iterations idx..n of the loop, perms[i] being argsort's answer for i.
RowsFrom(rows, sim, idx, top_k, perms) ==
    IF idx > Len(rows) THEN <<>>
    ELSE RowsForSource(rows, sim, idx, top_k, perms[idx])
         \o RowsFrom(rows, sim, idx + 1, top_k, perms)

\* Every table the loop can produce.
Recommendations(rows, sim, k) ==
    LET n == Len(rows)
        top_k == EffectiveTopK(k, n)
        choices == [i \in 1..n |-> ArgSorts(MaskedScores(sim, i))]
    IN  {RowsFrom(rows, sim, 1, top_k, perms) :
            perms \in {f \in [1..n -> Permutations1(n)] :
                          \A i \in 1..n : f[i] \in choices[i]}}

(***************************************************************************)
(* The persisted store EMBEDDINGS_FILE                                     *)
(***************************************************************************)
\* pickle.dump(payload, f): the byte stream, as the units it is written in.
\* A pickle ends with the STOP opcode.
PickleDumps(payload) ==
    << [op |-> "PROTO", v |-> <<>>],
       [op |-> "embeddings", v |-> payload.embeddings],
       [op |-> "signature", v |-> <<payload.signature>>],
       [op |-> "model", v |-> payload.model],
       [op |-> "STOP", v |-> <<>>] >>

\* An unpickler that returns what it has read when the stream ends early.
PickleLoadsLenient(data) ==
    IF Len(data) >= 2
    THEN [ok |-> TRUE,
          embeddings |-> data[2].v,
          signature |-> IF Len(data) >= 3 THEN data[3].v[1] ELSE Md5Hex(<<>>),
          model |-> IF Len(data) >= 4 THEN data[4].v ELSE <<>>]
    ELSE [ok |-> FALSE, embeddings |-> <<>>, signature |-> Md5Hex(<<>>), model |-> <<>>]

\* pickle.load(f): raises (ok = FALSE) unless the stream is a complete pickle.
PickleLoads(data) ==
    IF Len(data) = 5 /\ data[5].op = "STOP"
    THEN [ok |-> TRUE, embeddings |-> data[2].v, signature |-> data[3].v[1],
          model |-> data[4].v]
    ELSE [ok |-> FALSE, embeddings |-> <<>>, signature |-> Md5Hex(<<>>), model |-> <<>>]

NoFile == [exists |-> FALSE, data |-> <<>>]
FileOf(data) == [exists |-> TRUE, data |-> data]

\* A check that forgets the signature.
CacheValidNoSignature(file, texts, signature, model_name) ==
    /\ file.exists
    /\ PickleLoads(file.data).ok
    /\ Len(PickleLoads(file.data).embeddings) = Len(texts)
    /\ PickleLoads(file.data).model = model_name

\* A check that never clears need_rebuild.
CacheValidNever(file, texts, signature, model_name) == FALSE

\* A check that trusts whatever the unpickler returns.
CacheValidLenient(file, texts, signature, model_name) ==
    /\ file.exists
    /\ PickleLoadsLenient(file.data).ok
    /\ Len(PickleLoadsLenient(file.data).embeddings) = Len(texts)
    /\ PickleLoadsLenient(file.data).signature = signature
    /\ PickleLoadsLenient(file.data).model = model_name

\* A check that forgets the row count.
CacheValidNoRows(file, texts, signature, model_name) ==
    /\ file.exists
    /\ PickleLoads(file.data).ok
    /\ PickleLoads(file.data).signature = signature
    /\ PickleLoads(file.data).model = model_name

\* Lines 56-76 of load_or_build_embeddings: TRUE iff the stored vectors are
\* returned (need_rebuild = False); a failing pickle.load is caught.
CacheValid(file, texts, signature, model_name) ==
    /\ file.exists
    /\ PickleLoads(file.data).ok
    /\ Len(PickleLoads(file.data).embeddings) = Len(texts)
    /\ PickleLoads(file.data).signature = signature
    /\ PickleLoads(file.data).model = model_name

\* A build that opens the store for writing before it invokes the model.
StoreTruncatedOnModelFailure(file) == FileOf(<<>>)

\* The store when SentenceTransformer(...) or model.encode raises: line 84 has
\* not been reached, the file is as it was.
StoreOnModelFailure(file) == file

(***************************************************************************)
(* The pipeline: state                                                     *)
(***************************************************************************)
VARIABLES
    csv,            \* ARTICLES_CSV as read_csv returns it: [hasUrl, rows]
    modelName,      \* MODEL_NAME
    store,          \* EMBEDDINGS_FILE: [exists, data]
    outFile,        \* what this run wrote to RECOMMENDATIONS_CSV: [exists, columns, rows]
    pc,             \* position of the run of main()
    df,             \* main's df after ensure_unique_and_ordered
    sig,            \* main's sig
    embeddings,     \* main's embeddings
    path,           \* "none", "hit" or "miss": what load_or_build_embeddings decided
    modelCalls,     \* invocations of the embedding model in this run
    err,            \* the error the run surfaced, "" if none
    storeAtStart,   \* history: the store when the run started
    torn,           \* history: the store was left by a crash inside the persist step
    storeWrites,    \* history: times this run opened the store for writing
    shapeRebuilt,   \* history: this run took the shape-mismatch branch of main
    prevOut,        \* history: the table of the run just before, nothing changed since
    rank,           \* state of the ranking specification
    norm,           \* state of the normaliser specification
    sign            \* state of the signature specification

pipeVars == <<csv, modelName, store, outFile, pc, df, sig, embeddings, path,
              modelCalls, err, storeAtStart, torn, storeWrites, shapeRebuilt,
              prevOut>>
vars == <<csv, modelName, store, outFile, pc, df, sig, embeddings, path,
          modelCalls, err, storeAtStart, torn, storeWrites, shapeRebuilt,
          prevOut, rank, norm, sign>>

\* Inputs of the pipeline specification.
UrlA == <<97>>
UrlB == <<98>>
UrlC == <<99>>
TitleShort == <<99>>
\* "c\x00b\x00c": a title that contains the separator.
TitleLong == <<99, NUL, 98, NUL, 99>>
PipeTitles == {TitleShort, TitleLong}
PipeRows ==
    [url : {UrlA, UrlB}, title : PipeTitles, excerpt : {SP}, keywords : {SP}]
    \cup [url : {UrlC, NaN}, title : {TitleShort}, excerpt : {SP}, keywords : {SP}]
ModelNames == {<<109>>, <<110>>}

NoOutput == [exists |-> FALSE, columns |-> <<>>, rows |-> <<>>]
RecColumns == <<"source_url", "target_url", "similarity_score", "anchor_text">>

\* pd.DataFrame([]).to_csv: a table without a header line.
HeaderlessTable == [exists |-> TRUE, columns |-> <<>>, rows |-> <<>>]

\* Lines 109-111: pd.DataFrame(columns=[...]).to_csv(..., index=False).
EmptyRecommendationTable == [exists |-> TRUE, columns |-> RecColumns, rows |-> <<>>]

\* Lines 158-159: pd.DataFrame(recommendations).to_csv(..., index=False); the
\* columns are the keys of the dicts, there are none if the list is empty.
TableOf(recs) ==
    [exists |-> TRUE,
     columns |-> IF recs = <<>> THEN <<>> ELSE RecColumns,
     rows |-> recs]

\* A guard that only stops on an empty corpus.
TooFewOnlyEmpty(n) == n < 1

\* Line 107: if N < 2.
TooFew(n) == n < 2

\* Line 125: similarity_matrix.shape != (N, N).
ShapeMismatch(sim, n) == Len(sim) # n

\* A last-resort rebuild that removes the file and does not write it again.
StoreRemovedAfterShapeRebuild(emb, signature, model_name) ==
    [exists |-> FALSE, data |-> <<>>]

\* Lines 128-133: os.remove, then load_or_build_embeddings finds no file,
\* rebuilds and persists.
StoreAfterShapeRebuild(emb, signature, model_name) ==
    [exists |-> TRUE,
     data |-> PickleDumps(
         [embeddings |-> emb, signature |-> signature, model |-> model_name])]
NoSig == Md5Hex(<<>>)
Idle == "idle"

PipeIdle ==
    /\ pc = Idle /\ outFile = NoOutput /\ df = <<>> /\ sig = NoSig /\ embeddings = <<>>
    /\ path = "none" /\ modelCalls = 0 /\ err = "" /\ storeAtStart = NoFile
    /\ storeWrites = 0 /\ shapeRebuilt = FALSE

\* The table the crawler has collected before the first run: three documents.
FirstTable ==
    [hasUrl |-> TRUE,
     rows |-> [i \in 1..3 |->
                 [url |-> <<UrlC, UrlA, UrlB>>[i], title |-> TitleShort,
                  excerpt |-> SP, keywords |-> SP]]]

PipeInit ==
    /\ csv = FirstTable
    /\ modelName = <<109>>
    /\ store = NoFile
    /\ torn = FALSE
    /\ prevOut = NoOutput
    /\ PipeIdle

\* The run-local state after the process has ended.  RECOMMENDATIONS_CSV is
\* only ever written, never read: what an earlier run left in it is not kept.
ClearRun ==
    /\ pc' = Idle /\ outFile' = NoOutput /\ df' = <<>> /\ sig' = NoSig /\ embeddings' = <<>>
    /\ path' = "none" /\ modelCalls' = 0 /\ err' = "" /\ storeAtStart' = NoFile
    /\ storeWrites' = 0 /\ shapeRebuilt' = FALSE

(***************************************************************************)
(* The pipeline: mutations of the corpus and of the configuration between  *)
(* runs                                                                    *)
(***************************************************************************)
Between ==
    /\ prevOut' = NoOutput
    /\ UNCHANGED <<store, outFile, pc, df, sig, embeddings, path, modelCalls,
                   err, storeAtStart, torn, storeWrites, shapeRebuilt,
                   rank, norm, sign>>

AddDocument ==
    /\ pc = Idle /\ csv.hasUrl /\ Len(csv.rows) < MaxRows
    /\ \E r \in PipeRows : csv' = [csv EXCEPT !.rows = Append(@, r)]
    /\ UNCHANGED modelName /\ Between

RemoveDocument ==
    /\ pc = Idle /\ csv.hasUrl
    /\ \E i \in 1..Len(csv.rows) :
          csv' = [csv EXCEPT !.rows = SubSeq(@, 1, i - 1) \o SubSeq(@, i + 1, Len(@))]
    /\ UNCHANGED modelName /\ Between

EditDocument ==
    /\ pc = Idle /\ csv.hasUrl
    /\ \E i \in 1..Len(csv.rows), t \in PipeTitles :
          /\ t # csv.rows[i].title
          /\ [csv.rows[i] EXCEPT !.title = t] \in PipeRows
          /\ csv' = [csv EXCEPT !.rows[i].title = t]
    /\ UNCHANGED modelName /\ Between

\* The CSV is replaced by a table without a url column, or by an empty table
\* with one.
ReplaceTable ==
    /\ pc = Idle
    /\ csv' = [hasUrl |-> ~csv.hasUrl, rows |-> <<>>]
    /\ UNCHANGED modelName /\ Between

ChangeModel ==
    /\ pc = Idle
    /\ \E m \in ModelNames : m # modelName /\ modelName' = m
    /\ UNCHANGED csv /\ Between

(***************************************************************************)
(* The pipeline: one run of main()                                         *)
(***************************************************************************)
\* Lines 95-115: read, normalise, combine, the N < 2 guard, the signature.
StartRun ==
    /\ pc = Idle
    /\ storeAtStart' = store
    /\ LET n == ensure_unique_and_ordered(csv)
       IN  IF ~n.ok
           THEN /\ pc' = "aborted" /\ err' = "ValueError"
                /\ UNCHANGED <<df, sig, outFile>>
           ELSE /\ df' = n.rows
                /\ err' = ""
                /\ IF TooFew(Len(n.rows))
                   THEN /\ outFile' = EmptyRecommendationTable
                        /\ pc' = "done"
                        /\ UNCHANGED sig
                   ELSE /\ sig' = dataset_signature(Urls(n.rows), Texts(n.rows), modelName)
                        /\ pc' = "load"
                        /\ UNCHANGED outFile
    /\ UNCHANGED <<csv, modelName, store, embeddings, path, modelCalls, torn,
                   storeWrites, shapeRebuilt, prevOut, rank, norm, sign>>

\* load_or_build_embeddings, lines 56-73: the stored vectors are returned.
CacheHit ==
    /\ pc = "load"
    /\ CacheValid(store, Texts(df), sig, modelName)
    /\ embeddings' = PickleLoads(store.data).embeddings
    /\ path' = "hit"
    /\ pc' = "similarity"
    /\ UNCHANGED <<csv, modelName, store, outFile, df, sig, modelCalls, err,
                   storeAtStart, torn, storeWrites, shapeRebuilt, prevOut,
                   rank, norm, sign>>

\* load_or_build_embeddings, lines 56-79: need_rebuild stays True.
CacheMiss ==
    /\ pc = "load"
    /\ ~CacheValid(store, Texts(df), sig, modelName)
    /\ path' = "miss"
    /\ pc' = "encode"
    /\ UNCHANGED <<csv, modelName, store, outFile, df, sig, embeddings,
                   modelCalls, err, storeAtStart, torn, storeWrites, shapeRebuilt, prevOut,
                   rank, norm, sign>>

\* Lines 80-81: the model is loaded and encodes the ordered texts.
EncodeOk ==
    /\ pc = "encode"
    /\ embeddings' = ModelEncode(modelName, Texts(df))
    /\ modelCalls' = modelCalls + 1
    /\ pc' = "persist"
    /\ UNCHANGED <<csv, modelName, store, outFile, df, sig, path, err,
                   storeAtStart, torn, storeWrites, shapeRebuilt, prevOut,
                   rank, norm, sign>>

\* Lines 80-81 raise: the model cannot be loaded or fails while encoding.
EncodeFail ==
    /\ pc = "encode"
    /\ modelCalls' = modelCalls + 1
    /\ store' = StoreOnModelFailure(store)
    /\ pc' = "aborted"
    /\ err' = "ModelUnavailable"
    /\ UNCHANGED <<csv, modelName, outFile, df, sig, embeddings, path,
                   storeAtStart, torn, storeWrites, shapeRebuilt, prevOut,
                   rank, norm, sign>>

\* Lines 84-91: the file is opened ("wb"), the payload dumped, the file closed.
Persist ==
    /\ pc = "persist"
    /\ store' = FileOf(PickleDumps(
           [embeddings |-> embeddings, signature |-> sig, model |-> modelName]))
    /\ torn' = FALSE
    /\ storeWrites' = storeWrites + 1
    /\ pc' = "similarity"
    /\ UNCHANGED <<csv, modelName, outFile, df, sig, embeddings, path,
                   modelCalls, err, storeAtStart, shapeRebuilt, prevOut,
                   rank, norm, sign>>

\* The process dies inside lines 84-89: the file has been opened for writing
\* (truncated) and holds a proper prefix of the pickle.
CrashInPersist ==
    /\ pc = "persist"
    /\ LET full == PickleDumps(
           [embeddings |-> embeddings, signature |-> sig, model |-> modelName])
       IN  \E k \in 0..(Len(full) - 1) : store' = FileOf(SubSeq(full, 1, k))
    /\ torn' = TRUE
    /\ prevOut' = NoOutput
    /\ ClearRun
    /\ UNCHANGED <<csv, modelName, rank, norm, sign>>

\* Lines 121-160: the similarity matrix, the shape check with its last-resort
\* rebuild, the top-k loop and the output table.
Recommend ==
    /\ pc = "similarity"
    /\ LET n == Len(df)
           mismatch == ShapeMismatch(cosine_similarity(embeddings), n)
           emb == IF mismatch THEN ModelEncode(modelName, Texts(df)) ELSE embeddings
       IN  /\ embeddings' = emb
           /\ store' = IF mismatch
                       THEN StoreAfterShapeRebuild(emb, sig, modelName)
                       ELSE store
           /\ modelCalls' = IF mismatch THEN modelCalls + 1 ELSE modelCalls
           /\ storeWrites' = IF mismatch THEN storeWrites + 1 ELSE storeWrites
           /\ shapeRebuilt' = mismatch
           /\ torn' = IF mismatch THEN FALSE ELSE torn
           /\ \E recs \in Recommendations(df, cosine_similarity(emb), TOP_K) :
                 outFile' = TableOf(recs)
    /\ pc' = "done"
    /\ UNCHANGED <<csv, modelName, df, sig, path, err, storeAtStart, prevOut,
                   rank, norm, sign>>

\* The process ends (normally or with the surfaced error).
ExitRun ==
    /\ pc \in {"done", "aborted"}
    /\ prevOut' = IF pc = "done" /\ ~TooFew(Len(df)) THEN outFile ELSE NoOutput
    /\ ClearRun
    /\ UNCHANGED <<csv, modelName, store, torn, rank, norm, sign>>

OtherIdle == rank = <<>> /\ norm = <<>> /\ sign = <<>>

Init == PipeInit /\ OtherIdle

Next ==
    \/ AddDocument \/ RemoveDocument \/ EditDocument \/ ReplaceTable \/ ChangeModel
    \/ StartRun \/ CacheHit \/ CacheMiss \/ EncodeOk \/ EncodeFail
    \/ Persist \/ CrashInPersist \/ Recommend \/ ExitRun

Spec == Init /\ [][Next]_vars

(***************************************************************************)
(* Claims about the pipeline (specification Spec)                          *)
(***************************************************************************)
\* The payload this run persists when it rebuilds.
FreshEmbeddings == ModelEncode(modelName, Texts(df))
FreshStore ==
    FileOf(PickleDumps(
        [embeddings |-> FreshEmbeddings, signature |-> sig, model |-> modelName]))

\* A file is a match for this run: it exists, is readable, and its signature,
\* model and row count are those of the run.
Matches(file) ==
    /\ file.exists
    /\ PickleLoads(file.data).ok
    /\ PickleLoads(file.data).signature = sig
    /\ PickleLoads(file.data).model = modelName
    /\ Len(PickleLoads(file.data).embeddings) = Len(Texts(df))

C2_CacheHitFrame ==
    [][(pc = "load" /\ Matches(store)) =>
          /\ pc' = "similarity"
          /\ embeddings' = PickleLoads(store.data).embeddings
          /\ modelCalls' = modelCalls
          /\ store' = store]_vars

C2_Witness ==
    /\ pc = "similarity" /\ path = "hit" /\ Matches(store)
    /\ embeddings = PickleLoads(store.data).embeddings
    /\ modelCalls = 0 /\ store = storeAtStart

\* C3: cache miss.  When the store the run found is absent, corrupt, or
\* differs in signature, model or row count, the call (model available)
\* surfaces no error, invokes the model once on the run's ordered texts and
\* overwrites the store; the store then holds the run's signature and model
\* and the fresh vectors, which are the vectors returned.
C3_CacheMissRebuilds ==
    /\ (pc = "similarity" /\ ~Matches(storeAtStart)) =>
          /\ err = ""
          /\ modelCalls = 1
          /\ embeddings = FreshEmbeddings
          /\ store = FreshStore
    /\ (pc \in {"encode", "persist"}) => (err = "" /\ ~Matches(storeAtStart))
    /\ (pc = "aborted" /\ Len(df) >= 2) => err = "ModelUnavailable"

C3_Witness ==
    /\ pc = "similarity"
    /\ storeAtStart.exists /\ ~PickleLoads(storeAtStart.data).ok
    /\ store = FreshStore /\ embeddings = FreshEmbeddings /\ modelCalls = 1

\* C9: a torn write is detected.  A store left by a crash inside the persist
\* step is never accepted as a match by a later run: the run recomputes.
C9_TornNeverAccepted == torn => (path # "hit" /\ pc # "similarity")

\* A run has found the torn file of a crash that had written everything but
\* the end of the pickle, for the same corpus and model, and recomputes.
C9_Witness ==
    /\ torn /\ pc = "encode" /\ store = storeAtStart
    /\ Len(store.data) = 4
    /\ store.data[3].v = <<sig>> /\ store.data[4].v = modelName
    /\ Len(store.data[2].v) = Len(df)

\* C10: clean abort.  A run that has not completed its recomputation, and a
\* run that has aborted with a surfaced error (no url column, model
\* unavailable), leaves the persisted store as it was when the run started.
C10_CleanAbort ==
    (pc \in {"load", "encode", "aborted"}) => store = storeAtStart

C10_Witness ==
    /\ pc = "aborted" /\ err = "ModelUnavailable"
    /\ storeAtStart.exists /\ PickleLoads(storeAtStart.data).ok
    /\ store = storeAtStart

C12_DegenerateCorpus ==
    (pc # Idle /\ csv.hasUrl /\ Len(SortByUrl(DropDuplicates(DropNaUrl(csv.rows)))) < 2) =>
        /\ pc = "done"
        /\ err = ""
        /\ outFile.exists
        /\ outFile.columns =
              <<"source_url", "target_url", "similarity_score", "anchor_text">>
        /\ outFile.rows = <<>>

\* A run over a table whose two rows share one URL: N = 1.
C12_Witness ==
    /\ pc = "done" /\ err = "" /\ Len(csv.rows) = 2 /\ Len(df) = 1
    /\ outFile.exists /\ Len(outFile.columns) = 4 /\ outFile.rows = <<>>

\* C13: schema error.  A run over a table without a url column ends with the
\* schema error, writes no recommendation table, invokes no model (and leaves
\* the store alone); a run over a table with a url column raises no schema
\* error, whatever URLs are missing: the rows without URL are dropped, every
\* URL that is present stays.
C13_SchemaError ==
    /\ (pc # Idle /\ ~csv.hasUrl) =>
          /\ pc = "aborted"
          /\ err = "ValueError"
          /\ outFile = NoOutput
          /\ modelCalls = 0
          /\ store = storeAtStart
    /\ (pc # Idle /\ csv.hasUrl) =>
          /\ err # "ValueError"
          /\ \A i \in 1..Len(df) : df[i].url # NaN
          /\ \A j \in 1..Len(csv.rows) :
                csv.rows[j].url # NaN =>
                    \E i \in 1..Len(df) : df[i].url = csv.rows[j].url

\* The run over a table without url column has ended with the error; a store
\* of an earlier run is still there.
C13_Witness ==
    /\ pc = "aborted" /\ err = "ValueError" /\ ~csv.hasUrl
    /\ outFile = NoOutput /\ modelCalls = 0
    /\ store.exists /\ store = storeAtStart

\* C19: whatever the store held when the run started, the array that
\* load_or_build_embeddings returns has one row per text; the shape-mismatch
\* branch of main is never taken.
C19_RowsAlwaysMatch ==
    /\ (pc \in {"persist", "similarity"}) => Len(embeddings) = Len(Texts(df))
    /\ ~shapeRebuilt

\* The run found a readable store with its own signature and model and another
\* row count, and has got an array of the right length.
C19_Witness ==
    /\ pc = "similarity"
    /\ storeAtStart.exists /\ PickleLoads(storeAtStart.data).ok
    /\ PickleLoads(storeAtStart.data).signature = sig
    /\ PickleLoads(storeAtStart.data).model = modelName
    /\ Len(PickleLoads(storeAtStart.data).embeddings) # Len(df)
    /\ Len(embeddings) = Len(df)

\* C20: within one run the model is invoked at most once and the store is
\* written at most once, the store changes only in the persist step, after the
\* model has returned the vectors; a run on the N < 2 path or on the cache-hit
\* path invokes no model and leaves the store as it found it.
C20_OncePerRun ==
    /\ [](/\ modelCalls <= 1
          /\ storeWrites <= 1
          /\ storeWrites = 1 => modelCalls = 1
          /\ (pc # Idle /\ storeWrites = 0) => store = storeAtStart
          /\ (pc = "done" /\ Len(df) < 2) =>
                (modelCalls = 0 /\ storeWrites = 0 /\ store = storeAtStart)
          /\ path = "hit" =>
                (modelCalls = 0 /\ storeWrites = 0 /\ store = storeAtStart))
    /\ [][store' # store =>
            (pc = "persist" /\ modelCalls = 1 /\ embeddings = FreshEmbeddings)]_vars

\* A run that found a store, recomputed and replaced it.
C20_Witness ==
    /\ pc = "done" /\ path = "miss" /\ modelCalls = 1 /\ storeWrites = 1
    /\ storeAtStart.exists /\ store # storeAtStart

(***************************************************************************)
(* The ranking specification: lines 106-112 and 136-156 of main() on a     *)
(* corpus of n documents, their embeddings and a configured TOP_K, run     *)
(* twice on the same input.                                                *)
(***************************************************************************)
RankVectors == {ModelVectors[i] : i \in 1..3}
RankKs == (0 - 1)..MaxK

\* A URL-sorted corpus of n documents: "a", "b", ... with titles "ta", "tb", ...
RankRows(n) ==
    [i \in 1..n |->
        [url |-> <<96 + i>>, title |-> <<116, 96 + i>>, excerpt |-> SP, keywords |-> SP]]

RankInit ==
    /\ PipeInit /\ norm = <<>> /\ sign = <<>>
    /\ \E n \in 0..MaxN, k \in RankKs :
          \E e \in [1..n -> RankVectors] :
             rank = [pc |-> "start", rows |-> RankRows(n), emb |-> e, k |-> k,
                     idx |-> 0, recs |-> <<>>, run |-> 1, first |-> <<>>]

\* Lines 106-112 and 137-138: the N < 2 guard, or the start of the loop.
RankStart ==
    /\ rank # <<>> /\ rank.pc = "start"
    /\ rank' = IF Len(rank.rows) < 2
               THEN [rank EXCEPT !.pc = "done", !.recs = <<>>]
               ELSE [rank EXCEPT !.pc = "loop", !.recs = <<>>, !.idx = 1]
    /\ UNCHANGED <<pipeVars, norm, sign>>

\* Lines 140-156: one iteration of the loop.
RankSource ==
    /\ rank # <<>> /\ rank.pc = "loop"
    /\ LET sim == cosine_similarity(rank.emb)
           top_k == EffectiveTopK(rank.k, Len(rank.rows))
       IN  \E perm \in ArgSorts(MaskedScores(sim, rank.idx)) :
              rank' = [rank EXCEPT
                         !.recs = @ \o RowsForSource(rank.rows, sim, rank.idx, top_k, perm),
                         !.idx = @ + 1,
                         !.pc = IF rank.idx = Len(rank.rows) THEN "done" ELSE "loop"]
    /\ UNCHANGED <<pipeVars, norm, sign>>

\* The corpus sizes for which a second run is explored.
RepeatSizes == 0..3

\* An independent second run on the same corpus and vectors.
RankAgain ==
    /\ rank # <<>> /\ rank.pc = "done" /\ rank.run = 1
    /\ Len(rank.rows) \in RepeatSizes
    /\ rank' = [rank EXCEPT !.pc = "start", !.run = 2, !.first = rank.recs,
                            !.recs = <<>>, !.idx = 0]
    /\ UNCHANGED <<pipeVars, norm, sign>>

RankNext == RankStart \/ RankSource \/ RankAgain

SpecRank == RankInit /\ [][RankNext]_vars

\* The rows of a recommendation table whose source is url.
RowsOf(recs, url) == SelectSeq(recs, LAMBDA r : r.source_url = url)

\* C4 (as claimed): self-exclusion.  No recommendation row has source_url
\* equal to target_url, whatever the similarities in [-1, 1].
C4_SelfExclusion ==
    \A i \in 1..Len(rank.recs) : rank.recs[i].source_url # rank.recs[i].target_url

\* No similarity between two distinct documents equals the self mask.
NoMaskedTie(emb) ==
    \A i, j \in 1..Len(emb) : i # j => CosSim(emb[i], emb[j]) # SELF_SCORE

\* C5 (as claimed): determinism.  Two independent runs on the same corpus
\* and vectors produce the same recommendation list, the order of targets
\* with equal scores included (stated for the runs in which no score equals
\* the self mask, so that a difference is not a self-pair of C4).
C5_Determinism ==
    (rank.pc = "done" /\ rank.run = 2 /\ NoMaskedTie(rank.emb)) =>
        rank.recs = rank.first

\* C6 (as claimed): k bound.  Every source yields exactly min(k, N-1) rows,
\* and the run yields no rows if N < 2.
C6_KBoundAsClaimed ==
    rank.pc = "done" =>
        IF Len(rank.rows) < 2 THEN rank.recs = <<>>
        ELSE \A i \in 1..Len(rank.rows) :
                Len(RowsOf(rank.recs, rank.rows[i].url))
                    = Min(rank.k, Len(rank.rows) - 1)

\* C6 (amended): every source yields exactly max(1, min(k, N-1)) rows, which
\* is min(k, N-1) whenever k >= 1 and is 1 when k <= 0; no rows if N < 2.
C6_KBound ==
    rank.pc = "done" =>
        IF Len(rank.rows) < 2 THEN rank.recs = <<>>
        ELSE \A i \in 1..Len(rank.rows) :
                /\ Len(RowsOf(rank.recs, rank.rows[i].url))
                      = Max(1, Min(rank.k, Len(rank.rows) - 1))
                /\ rank.k >= 1 =>
                      Len(RowsOf(rank.recs, rank.rows[i].url))
                          = Min(rank.k, Len(rank.rows) - 1)

\* A finished run with k < N - 1: three sources, one row each.
C6_Witness ==
    /\ rank.pc = "done" /\ Len(rank.rows) = 3 /\ rank.k = 1
    /\ Len(rank.recs) = 3
    /\ \A i \in 1..3 : Len(RowsOf(rank.recs, rank.rows[i].url)) = 1

\* C14 (as claimed): ranking.  The rows of one source name the k
\* highest-similarity other documents in descending score order: every target
\* is a document other than the source, the scores of consecutive rows are
\* non-increasing, and no document other than the source that is left out has
\* a higher similarity to the source than an emitted row's score.
C14_Ranking ==
    (rank.pc = "done" /\ Len(rank.rows) >= 2) =>
        \A i \in 1..Len(rank.rows) :
            LET out == RowsOf(rank.recs, rank.rows[i].url)
            IN  /\ \A t \in 1..Len(out) : out[t].target_url # rank.rows[i].url
                /\ \A t \in 1..(Len(out) - 1) :
                      out[t].similarity_score >= out[t + 1].similarity_score
                /\ \A j \in 1..Len(rank.rows) :
                      (j # i /\ \A t \in 1..Len(out) :
                                    out[t].target_url # rank.rows[j].url)
                      => \A t \in 1..Len(out) :
                            CosSim(rank.emb[i], rank.emb[j]) <= out[t].similarity_score

\* C15: effective k.  For every configured k, k <= 0 and k > N-1 included,
\* and every N >= 2, each source has exactly max(1, min(k, N-1)) rows, which
\* is between 1 and N-1, and the targets of one source are pairwise distinct.
C15_EffectiveK ==
    (rank.pc = "done" /\ Len(rank.rows) >= 2) =>
        \A i \in 1..Len(rank.rows) :
            LET out == RowsOf(rank.recs, rank.rows[i].url)
            IN  /\ Len(out) = Max(1, Min(rank.k, Len(rank.rows) - 1))
                /\ Len(out) >= 1
                /\ Len(out) <= Len(rank.rows) - 1
                /\ \A s, t \in 1..Len(out) :
                      s # t => out[s].target_url # out[t].target_url

\* A finished run with k > N - 1: two sources, one row each.
C15_Witness ==
    /\ rank # <<>> /\ rank.pc = "done"
    /\ Len(rank.rows) = 2 /\ rank.k = 2
    /\ Len(rank.recs) = 2
    /\ rank.recs[1].source_url # rank.recs[2].source_url

(***************************************************************************)
(* The normaliser specification: ensure_unique_and_ordered followed by     *)
(* combine_text (and the signature and the ranking that follow), applied   *)
(* to a raw table and to the same rows in another order.                   *)
(***************************************************************************)
NormRowSet ==
    [url : {NaN, UrlA, UrlB}, title : {NaN, TitleShort, <<32, 98, 32>>},
     excerpt : {NaN, SP}, keywords : {SP}]

NormTables == UNION {[1..n -> NormRowSet] : n \in 0..MaxNormRows}

\* The rows of t in the order p.
Reordered(t, p) == [i \in 1..Len(t) |-> t[p[i]]]

\* What main() derives from a raw table under the model "m": the ordered
\* corpus, its combined texts, the signature, and every recommendation table
\* the top-k loop can produce.
Normalised(t) ==
    LET rows == ensure_unique_and_ordered([hasUrl |-> TRUE, rows |-> t]).rows
        texts == Texts(rows)
    IN  [rows |-> rows,
         texts |-> texts,
         sig |-> dataset_signature(Urls(rows), texts, <<109>>),
         recs |-> IF Len(rows) < 2 THEN {<<>>}
                  ELSE Recommendations(rows,
                           cosine_similarity(ModelEncode(<<109>>, texts)), TOP_K)]

NotNormalised == [rows |-> <<>>, texts |-> <<>>, sig |-> NoSig, recs |-> {}]

NormInit ==
    /\ PipeInit /\ rank = <<>> /\ sign = <<>>
    /\ \E t \in NormTables :
          \E p \in Permutations1(Len(t)) :
             norm = [a |-> t, b |-> Reordered(t, p), doneA |-> FALSE, doneB |-> FALSE,
                     outA |-> NotNormalised, outB |-> NotNormalised]

NormalizeA ==
    /\ norm # <<>> /\ ~norm.doneA
    /\ norm' = [norm EXCEPT !.doneA = TRUE, !.outA = Normalised(norm.a)]
    /\ UNCHANGED <<pipeVars, rank, sign>>

NormalizeB ==
    /\ norm # <<>> /\ ~norm.doneB
    /\ norm' = [norm EXCEPT !.doneB = TRUE, !.outB = Normalised(norm.b)]
    /\ UNCHANGED <<pipeVars, rank, sign>>

NormNext == NormalizeA \/ NormalizeB

SpecNorm == NormInit /\ [][NormNext]_vars

\* No two rows of the table share a URL and differ in another field.
NoConflictingDuplicates(t) ==
    \A i, j \in 1..Len(t) : t[i].url = t[j].url => t[i] = t[j]

FieldOf(cell) == IF cell = NaN THEN <<>> ELSE Strip(cell)

\* The trimmed non-empty fields among title, excerpt, keywords joined by ". ".
JoinedFields(row) ==
    Join(JoinSep,
         SelectSeq(<<FieldOf(row.title), FieldOf(row.excerpt), FieldOf(row.keywords)>>,
                   LAMBDA f : f # <<>>))

\* C17 (as claimed): combined text.  combine_text returns the trimmed
\* non-empty fields among title, excerpt, keywords, in that order, joined with
\* ". "; a document whose fields are all empty or missing, missing as read_csv
\* loads an empty cell, yields the empty string.
C17_CombinedText ==
    norm.doneA =>
        \A i \in 1..Len(norm.outA.rows) :
            norm.outA.texts[i] = JoinedFields(norm.outA.rows[i])

(***************************************************************************)
(* The signature specification: the byte stream dataset_signature hashes,  *)
(* computed for two inputs.                                                *)
(***************************************************************************)
\* "", "a", "a\x00", "\x00a", and "a" followed by a lone surrogate.
SigStrings == {<<>>, <<97>>, <<97, NUL>>, <<NUL, 97>>, <<97, 55296>>}
SigRecords == [url : SigStrings, text : SigStrings]
SigInputs ==
    [model : ModelNames,
     records : UNION {[1..n -> SigRecords] : n \in 0..MaxRecords}]

SigUrls(in) == [i \in 1..Len(in.records) |-> in.records[i].url]
SigTexts(in) == [i \in 1..Len(in.records) |-> in.records[i].text]

SigInit ==
    /\ PipeInit /\ rank = <<>> /\ norm = <<>>
    /\ \E x \in SigInputs, y \in SigInputs :
          sign = [a |-> x, b |-> y, doneA |-> FALSE, doneB |-> FALSE,
                  streamA |-> <<>>, streamB |-> <<>>]

SignA ==
    /\ sign # <<>> /\ ~sign.doneA
    /\ sign' = [sign EXCEPT !.doneA = TRUE,
                  !.streamA = SignatureStream(SigUrls(sign.a), SigTexts(sign.a), sign.a.model)]
    /\ UNCHANGED <<pipeVars, rank, norm>>

SignB ==
    /\ sign # <<>> /\ ~sign.doneB
    /\ sign' = [sign EXCEPT !.doneB = TRUE,
                  !.streamB = SignatureStream(SigUrls(sign.b), SigTexts(sign.b), sign.b.model)]
    /\ UNCHANGED <<pipeVars, rank, norm>>

SigNext == SignA \/ SignB

SpecSig == SigInit /\ [][SigNext]_vars

\* A string the UTF-8 encoder takes whole (no lone surrogate).
Encodable(in) ==
    \A i \in 1..Len(in.records) :
        /\ EncodeIgnore(in.records[i].url) = in.records[i].url
        /\ EncodeIgnore(in.records[i].text) = in.records[i].text

\* C8 (as claimed): the byte stream is an injective function of (model,
\* ordered (url, text) pairs): two encodable inputs that differ in anything
\* never produce the same stream, strings containing the separator included.
C8_StreamInjective ==
    (sign.doneA /\ sign.doneB /\ Encodable(sign.a) /\ Encodable(sign.b)
        /\ sign.a # sign.b)
        => sign.streamA # sign.streamB

(***************************************************************************)
(* The shape-check specification: lines 121-160 of main, entered with a    *)
(* vector array of any row count (what load_or_build_embeddings would hand *)
(* over if its own row-count check did not exist), and the store holding   *)
(* that array under the run's signature and model.                         *)
(***************************************************************************)
\* The corpus sizes explored: the loop of lines 140-156 is run for each.
ShapeSizes == 2..3
ShapeCorpora == {RankRows(n) : n \in ShapeSizes}
ShapeArrays == UNION {[1..m -> RankVectors] : m \in 1..(MaxN + 1)}

ShapeInit ==
    /\ OtherIdle
    /\ \E rows \in ShapeCorpora, m \in ModelNames, e \in ShapeArrays :
          /\ csv = [hasUrl |-> TRUE, rows |-> rows]
          /\ modelName = m
          /\ df = rows
          /\ sig = dataset_signature(Urls(rows), Texts(rows), m)
          /\ embeddings = e
          /\ store = FileOf(PickleDumps(
                 [embeddings |-> e,
                  signature |-> dataset_signature(Urls(rows), Texts(rows), m),
                  model |-> m]))
    /\ storeAtStart = store
    /\ pc = "similarity" /\ path = "hit" /\ err = "" /\ modelCalls = 0
    /\ outFile = NoOutput /\ prevOut = NoOutput
    /\ torn = FALSE /\ storeWrites = 0 /\ shapeRebuilt = FALSE

\* Lines 125-133 when the model is not available: the file has been removed,
\* SentenceTransformer(...) or encode raises out of load_or_build_embeddings.
RecommendRebuildFail ==
    /\ pc = "similarity"
    /\ ShapeMismatch(cosine_similarity(embeddings), Len(df))
    /\ store' = NoFile
    /\ torn' = FALSE
    /\ modelCalls' = modelCalls + 1
    /\ shapeRebuilt' = TRUE
    /\ err' = "ModelUnavailable"
    /\ pc' = "aborted"
    /\ UNCHANGED <<csv, modelName, outFile, df, sig, embeddings, path,
                   storeAtStart, storeWrites, prevOut, rank, norm, sign>>

ShapeNext == Recommend \/ RecommendRebuildFail \/ ExitRun

SpecShape == ShapeInit /\ [][ShapeNext]_vars

\* C18: defensive rebuild.  When the similarity step has an array whose row
\* count differs from the corpus length, the run surfaces no shape error: with
\* the model available it replaces the store by one holding the vectors
\* recomputed for the current corpus, goes on with exactly N vectors and
\* writes the recommendation rows of every source, scored from them.
C18_DefensiveRebuild ==
    [][(pc = "similarity" /\ Len(embeddings) # Len(df)) =>
          \/ /\ pc' = "done"
             /\ err' = ""
             /\ modelCalls' = modelCalls + 1
             /\ embeddings' = FreshEmbeddings
             /\ Len(embeddings') = Len(df)
             /\ store' = FreshStore
             /\ store' # store
             /\ outFile'.exists
             /\ Len(outFile'.rows) = Len(df) * Max(1, Min(TOP_K, Len(df) - 1))
             /\ \A t \in 1..Len(outFile'.rows) :
                   \E i, j \in 1..Len(df) :
                      /\ outFile'.rows[t].source_url = df[i].url
                      /\ outFile'.rows[t].target_url = df[j].url
                      /\ outFile'.rows[t].similarity_score =
                            IF i = j THEN SELF_SCORE
                            ELSE CosSim(embeddings'[i], embeddings'[j])
          \/ /\ pc' = "aborted"
             /\ err' = "ModelUnavailable"]_vars

\* The run was handed four vectors for three documents and has ended normally.
C18_Witness ==
    /\ pc = "done" /\ err = "" /\ shapeRebuilt
    /\ Len(df) = 3
    /\ Len(PickleLoads(storeAtStart.data).embeddings) = 4
    /\ Len(embeddings) = 3 /\ embeddings = FreshEmbeddings
    /\ store = FreshStore
    /\ outFile.exists /\ Len(outFile.rows) = 6

=============================================================================
